---- MODULE Spec2Model ----
(***************************************************************************)
(* A model of rssync, a server side of the rsync daemon protocol (31.0).   *)
(*                                                                         *)
(*  - src/src/protocol.rs : RsyncSocket, the mode-switched socket layer    *)
(*    (SocketSpec).                                                        *)
(*  - src/src/main.rs     : Rsyncd and main, the session that the binary   *)
(*    actually runs (Spec), and the file-list / varint encoders            *)
(*    (CodecSpec).                                                         *)
(*  - src/src/file_list.rs: XferFlags and File::write_data_bytes, the      *)
(*    entry encoder that derives the flags from the file (CodecSpec).      *)
(*                                                                         *)
(* Bytes are the integers 0..255 and a stream is a sequence of bytes.      *)
(* A blocking TcpStream write is modelled as all-or-nothing: it transfers  *)
(* the whole buffer, or fails with an Io error when the connection was     *)
(* reset.  A read blocks until its outcome is decided by the bytes that    *)
(* arrived or by the peer closing or resetting the connection; an action   *)
(* that reads is therefore enabled only once its outcome is decided.       *)
(***************************************************************************)
EXTENDS Integers, Sequences, FiniteSets, TLC

VARIABLES
    \* ---- protocol.rs, RsyncSocket ----
    multiplex_in,   \* RsyncSocket.multiplex_in
    multiplex_out,  \* RsyncSocket.multiplex_out
    rd,             \* bytes the peer sent that the socket has not consumed yet
    peer,           \* "open" | "closed" (EOF follows rd) | "reset" (I/O fails)
    panicked,       \* the thread using the socket panicked (todo!(), index out of bounds)
    last,           \* the last call on the socket: what was asked and what came back
    \* ---- main.rs, main and Rsyncd ----
    pc,             \* the statement of main that runs next
    sin,            \* what the client sends on this connection and main has not read; EOF follows
    sconn,          \* "open" | "reset": the state of the accepted connection
    sout,           \* the bytes main wrote on this connection
    main_message,   \* main's local `message`: the length of the Data message read, -1 before
    log,            \* the I/O steps of this session in the order they ran, with their results
    \* ---- main.rs, send_file_list on any list ----
    flist,          \* the file list handed to send_file_list
    fsdir,          \* per file of flist: whether the file system has it as a directory
    enc,            \* what send_file_list made of it
    \* ---- file_list.rs, File::write_data_bytes; main.rs, write_varlong ----
    entry,          \* the last call of File::write_data_bytes and what it appended
    varlong,        \* the last call of write_varlong and what it appended
    bulk,           \* the last call of send_file_list on a long list, by its lengths
    \* ---- the binary ----
    profile         \* "debug" | "release": whether arithmetic overflow panics

sockVars == <<multiplex_in, multiplex_out, rd, peer, panicked, last>>

sessVars == <<pc, sin, sconn, sout, main_message, log>>

codecVars == <<flist, fsdir, enc, entry, varlong, bulk>>

vars == <<sockVars, sessVars, codecVars, profile>>

----------------------------------------------------------------------------
(* Bytes and sequences *)

U8(x) == x % 256

Shr(x, k) == x \div (2 ^ k)

Take(s, n) == SubSeq(s, 1, n)

Drop(s, n) == SubSeq(s, n + 1, Len(s))

IsPrefix(p, s) == Len(p) <= Len(s) /\ Take(s, Len(p)) = p

\* index of the first occurrence of byte d in s, 0 when there is none
IndexOf(s, d) ==
    IF \E i \in 1..Len(s) : s[i] = d
    THEN CHOOSE i \in 1..Len(s) : s[i] = d /\ \A j \in 1..(i - 1) : s[j] # d
    ELSE 0

----------------------------------------------------------------------------
(* protocol.rs: messages and the frame header *)

\* enum RsyncMessage, in declaration order
MessageKinds ==
    << "Data", "XferError", "Info", "Error", "Warning", "SocketError",
       "Utf8Error", "Log", "Client", "Redo", "Stats", "IoError", "IoTimeout",
       "Noop", "ErrorExit", "Success", "Deleted", "NoSend", "Invalid" >>

DataMsg(p) == [kind |-> "Data", data |-> p]

OtherMsg(k) == [kind |-> k, data |-> <<>>]

\* DataHeader with the wire offset of the tag forgotten
DataHeader_tag_without_offset(length) ==
    << U8(length), U8(Shr(length, 8)), U8(Shr(length, 16)), 0 >>

\* the Data arm of msg_to_header, as a function of data.len()
DataHeader(length) ==
    << U8(length), U8(Shr(length, 8)), U8(Shr(length, 16)), 7 >>

msg_to_header(message) ==
    IF message.kind = "Data" THEN DataHeader(Len(message.data)) ELSE <<0, 0, 0, 0>>

\* msg_from_header reading the length high byte first
msg_from_header_big_endian(data) ==
    << (data[4] + 256 - 7) % 256, data[1] * 65536 + data[2] * 256 + data[3] >>

\* (tag, data_bytes); the tag is data[3].wrapping_sub(0x07)
msg_from_header(data) ==
    << (data[4] + 256 - 7) % 256, data[3] * 65536 + data[2] * 256 + data[1] >>

----------------------------------------------------------------------------
(* protocol.rs: the operations of RsyncSocket, as outcomes *)

Outcome(res, err, kind, data, used, wrote, val) ==
    [res |-> res, err |-> err, kind |-> kind, data |-> data, used |-> used,
     wrote |-> wrote, val |-> val]

\* send_message that frames whatever the mode is
send_message_always_framed(mp_out, message, conn) ==
    IF conn = "reset"
    THEN Outcome("Err", "Io", "", <<>>, 0, <<>>, 0)
    ELSE IF message.kind = "Data"
         THEN Outcome("Ok", "", "", <<>>, 0, msg_to_header(message) \o message.data, 0)
         ELSE Outcome("Panic", "", "", <<>>, 0, msg_to_header(message), 0)

\* send_message(&mut self, message): conn is the state of the connection
send_message(mp_out, message, conn) ==
    IF ~mp_out
    THEN IF message.kind = "Data"
         THEN IF conn = "reset"
              THEN Outcome("Err", "Io", "", <<>>, 0, <<>>, 0)
              ELSE Outcome("Ok", "", "", <<>>, 0, message.data, 0)
         ELSE Outcome("Err", "NonDataWhileMultiplexed", "", <<>>, 0, <<>>, 0)
    ELSE IF conn = "reset"
         THEN Outcome("Err", "Io", "", <<>>, 0, <<>>, 0)
         ELSE IF message.kind = "Data"
              THEN Outcome("Ok", "", "", <<>>, 0,
                           msg_to_header(message) \o message.data, 0)
              \* todo!() after the header went out
              ELSE Outcome("Panic", "", "", <<>>, 0, msg_to_header(message), 0)

\* send_data(&mut self, data)
send_data(mp_out, data, conn) == send_message(mp_out, DataMsg(data), conn)

\* read_message(&mut self): buf is what the stream still holds, then EOF
read_message(mp_in, buf, conn) ==
    IF ~mp_in
    THEN Outcome("Err", "ReadMessageWhileNotMultiplexed", "", <<>>, 0, <<>>, 0)
    ELSE IF conn = "reset"
    THEN Outcome("Err", "Io", "", <<>>, 0, <<>>, 0)
    ELSE IF Len(buf) < 4
    THEN Outcome("Err", "Io", "", <<>>, Len(buf), <<>>, 0)
    ELSE LET hdr == msg_from_header(Take(buf, 4))
             tag == hdr[1]
             n   == hdr[2]
         IN  IF tag = 0
             THEN IF Len(buf) < 4 + n
                  THEN Outcome("Err", "Io", "", <<>>, Len(buf), <<>>, 0)
                  ELSE Outcome("Ok", "", "Data", SubSeq(buf, 5, 4 + n), 4 + n, <<>>, 0)
             ELSE Outcome("Err", "UnsupportedMessageType", "", <<>>, 4, <<>>, 0)

\* whether read_message returns (rather than blocks) on what has arrived
read_message_ready(mp_in, buf, conn) ==
    \/ ~mp_in
    \/ conn # "open"
    \/ /\ Len(buf) >= 4
       /\ LET hdr == msg_from_header(Take(buf, 4))
          IN  hdr[1] # 0 \/ Len(buf) >= 4 + hdr[2]

\* read_raw_until without its check of the mode
read_raw_until_any_mode(mp_in, delimiter, buf, conn) ==
    IF conn = "reset"
    THEN Outcome("Err", "Io", "", <<>>, 0, <<>>, 0)
    ELSE LET i == IndexOf(buf, delimiter)
             n == IF i = 0 THEN Len(buf) ELSE i
         IN  Outcome("Ok", "", "", Take(buf, n), n, <<>>, 0)

\* read_raw_until(&mut self, delimiter)
read_raw_until(mp_in, delimiter, buf, conn) ==
    IF ~mp_in
    THEN IF conn = "reset"
         THEN Outcome("Err", "Io", "", <<>>, 0, <<>>, 0)
         ELSE LET i == IndexOf(buf, delimiter)
                  n == IF i = 0 THEN Len(buf) ELSE i
              IN  Outcome("Ok", "", "", Take(buf, n), n, <<>>, 0)
    ELSE Outcome("Err", "RawReadWhileMultiplexed", "", <<>>, 0, <<>>, 0)

read_raw_until_ready(mp_in, delimiter, buf, conn) ==
    mp_in \/ conn # "open" \/ IndexOf(buf, delimiter) # 0

\* i32::from_be_bytes
i32_from_be_bytes(b) ==
    (IF b[1] >= 128 THEN b[1] - 256 ELSE b[1]) * 16777216
        + b[2] * 65536 + b[3] * 256 + b[4]

\* read_int(&mut self): data[i] for i in 0..4 panics on a payload shorter than 4
read_int(mp_in, buf, conn) ==
    LET m == read_message(mp_in, buf, conn)
    IN  IF m.res # "Ok" THEN m
        ELSE IF m.kind = "Data"
        THEN IF Len(m.data) < 4
             THEN Outcome("Panic", "", "", <<>>, m.used, <<>>, 0)
             ELSE Outcome("Ok", "", "", <<>>, m.used, <<>>, i32_from_be_bytes(m.data))
        ELSE Outcome("Err", "Invalid", "", <<>>, m.used, <<>>, 0)

----------------------------------------------------------------------------
(* protocol.rs: the socket as a state machine, with a peer at the other end *)

\* longest payload handed to send_message / send_data
MaxPayload == 5

\* the peer sends again only when at most this many bytes wait unread
MaxBacklog == 0

\* payloads the two ends pass to send_message: lines, NUL-terminated
\* arguments, integers, and bytes that read as frame headers of other tags
PayloadCases ==
    { <<>>, <<0>>, <<65, 10>>, <<65, 0>>, <<1, 0, 0, 7>>, <<0, 0, 0, 8>>,
      <<0, 0, 0, 6>>, <<0, 0, 0, 26>>, <<255, 255, 255, 254>>, <<0, 0, 1, 0, 9>>,
      <<7, 7, 7, 7, 7, 7>>, <<0, 0, 0, 9, 1, 2, 3>> }

Payloads == { p \in PayloadCases : Len(p) <= MaxPayload }

\* payloads the socket under study sends
SendCases == { <<>>, <<65, 10>>, <<0, 0, 1, 0, 9>>, <<7, 7, 7, 7, 7, 7>> }

SendPayloads == { p \in SendCases : Len(p) <= MaxPayload }

Delimiters == {0, 10}

NoCall ==
    [op |-> "new", mode |-> FALSE, arg |-> 0, flag |-> FALSE, kind |-> "",
     data |-> <<>>, res |-> "", err |-> "", got |-> <<>>, wrote |-> <<>>, val |-> 0]

\* the record of a call: its name, the mode flag it acts on at the call, its
\* argument, and the outcome (got: the bytes it took off the stream)
Call(op, mode, arg, flag, kind, data, o, got) ==
    [op |-> op, mode |-> mode, arg |-> arg, flag |-> flag,
     kind |-> IF kind # "" THEN kind ELSE o.kind,
     data |-> IF kind # "" THEN data ELSE o.data,
     res |-> o.res, err |-> o.err, got |-> got, wrote |-> o.wrote, val |-> o.val]

SessIdle ==
    /\ pc = "accept"
    /\ sin = <<>>
    /\ sconn = "open"
    /\ sout = <<>>
    /\ main_message = -1
    /\ log = <<>>

NoEnc == [res |-> "", err |-> "", data |-> <<>>, wrote |-> <<>>]

NoEntry ==
    [file |-> [dirname |-> <<>>, basename |-> <<>>, modtime |-> 0,
               filelen |-> <<0, 0, 0, 0, 0, 0, 0, 0>>, mode |-> 0, flags |-> 0,
               name_type |-> "Normal"],
     is_dir |-> FALSE, res |-> "", err |-> "", bytes |-> <<>>]

NoVarlong ==
    [value |-> <<0, 0, 0, 0, 0, 0, 0, 0>>, min_size |-> 0, res |-> "", bytes |-> <<>>]

NoBulk == [count |-> 0, res |-> "", header |-> <<>>, payload_len |-> 0]

CodecIdle ==
    /\ flist = <<>>
    /\ fsdir = <<>>
    /\ enc = NoEnc
    /\ entry = NoEntry
    /\ varlong = NoVarlong
    /\ bulk = NoBulk

SockIdle ==
    /\ multiplex_in = FALSE
    /\ multiplex_out = FALSE
    /\ rd = <<>>
    /\ peer = "open"
    /\ panicked = FALSE
    /\ last = NoCall

SockInit == SockIdle /\ SessIdle /\ CodecIdle /\ profile = "release"

Done(o) == Outcome("Ok", "", "", <<>>, 0, <<>>, 0)

SetMultiplexIn(mp) ==
    /\ UNCHANGED <<sessVars, codecVars, profile>>
    /\ ~panicked
    /\ multiplex_in' = mp
    /\ last' = Call("set_multiplex_in", multiplex_in, 0, mp, "", <<>>, Done(0), <<>>)
    /\ UNCHANGED <<multiplex_out, rd, peer, panicked>>

SetMultiplexOut(mp) ==
    /\ UNCHANGED <<sessVars, codecVars, profile>>
    /\ ~panicked
    /\ multiplex_out' = mp
    /\ last' = Call("set_multiplex_out", multiplex_out, 0, mp, "", <<>>, Done(0), <<>>)
    /\ UNCHANGED <<multiplex_in, rd, peer, panicked>>

\* multiplex_in(&self) -> bool { self.multiplex_out }
GetMultiplexIn ==
    /\ UNCHANGED <<sessVars, codecVars, profile>>
    /\ ~panicked
    /\ last' = Call("multiplex_in", multiplex_in, 0, multiplex_out, "", <<>>, Done(0), <<>>)
    /\ UNCHANGED <<multiplex_in, multiplex_out, rd, peer, panicked>>

\* multiplex_out(&self) -> bool { self.multiplex_out }
GetMultiplexOut ==
    /\ UNCHANGED <<sessVars, codecVars, profile>>
    /\ ~panicked
    /\ last' = Call("multiplex_out", multiplex_out, 0, multiplex_out, "", <<>>, Done(0), <<>>)
    /\ UNCHANGED <<multiplex_in, multiplex_out, rd, peer, panicked>>

SendMessage(message) ==
    /\ UNCHANGED <<sessVars, codecVars, profile>>
    /\ ~panicked
    /\ LET o == send_message(multiplex_out, message, peer)
       IN  /\ last' = Call("send_message", multiplex_out, 0, FALSE,
                           message.kind, message.data, o, <<>>)
           /\ panicked' = (o.res = "Panic")
    /\ UNCHANGED <<multiplex_in, multiplex_out, rd, peer>>

SendData(data) ==
    /\ UNCHANGED <<sessVars, codecVars, profile>>
    /\ ~panicked
    /\ LET o == send_data(multiplex_out, data, peer)
       IN  /\ last' = Call("send_data", multiplex_out, 0, FALSE, "Data", data, o, <<>>)
           /\ panicked' = (o.res = "Panic")
    /\ UNCHANGED <<multiplex_in, multiplex_out, rd, peer>>

ReadMessage ==
    /\ UNCHANGED <<sessVars, codecVars, profile>>
    /\ ~panicked
    /\ read_message_ready(multiplex_in, rd, peer)
    /\ LET o == read_message(multiplex_in, rd, peer)
       IN  /\ last' = Call("read_message", multiplex_in, 0, FALSE, "", <<>>, o, Take(rd, o.used))
           /\ rd' = Drop(rd, o.used)
    /\ UNCHANGED <<multiplex_in, multiplex_out, peer, panicked>>

ReadRawUntil(delimiter) ==
    /\ UNCHANGED <<sessVars, codecVars, profile>>
    /\ ~panicked
    /\ read_raw_until_ready(multiplex_in, delimiter, rd, peer)
    /\ LET o == read_raw_until(multiplex_in, delimiter, rd, peer)
       IN  /\ last' = Call("read_raw_until", multiplex_in, delimiter, FALSE, "", <<>>, o,
                           Take(rd, o.used))
           /\ rd' = Drop(rd, o.used)
    /\ UNCHANGED <<multiplex_in, multiplex_out, peer, panicked>>

ReadInt ==
    /\ UNCHANGED <<sessVars, codecVars, profile>>
    /\ ~panicked
    /\ read_message_ready(multiplex_in, rd, peer)
    /\ LET o == read_int(multiplex_in, rd, peer)
       IN  /\ last' = Call("read_int", multiplex_in, 0, FALSE, "", <<>>, o, Take(rd, o.used))
           /\ rd' = Drop(rd, o.used)
           /\ panicked' = (o.res = "Panic")
    /\ UNCHANGED <<multiplex_in, multiplex_out, peer>>

\* the peer is an RsyncSocket too: what it sends is what its send_message writes
PeerSend(mux, p) ==
    /\ UNCHANGED <<sessVars, codecVars, profile>>
    /\ ~panicked
    /\ peer = "open"
    /\ Len(rd) <= MaxBacklog
    /\ rd' = rd \o send_message(mux, DataMsg(p), "open").wrote
    /\ UNCHANGED <<multiplex_in, multiplex_out, peer, panicked, last>>

PeerClose ==
    /\ UNCHANGED <<sessVars, codecVars, profile>>
    /\ ~panicked
    /\ peer = "open"
    /\ peer' = "closed"
    /\ UNCHANGED <<multiplex_in, multiplex_out, rd, panicked, last>>

PeerReset ==
    /\ UNCHANGED <<sessVars, codecVars, profile>>
    /\ ~panicked
    /\ peer # "reset"
    /\ peer' = "reset"
    /\ rd' = <<>>
    /\ UNCHANGED <<multiplex_in, multiplex_out, panicked, last>>

SockNext ==
    \/ \E mp \in BOOLEAN : SetMultiplexIn(mp)
    \/ \E mp \in BOOLEAN : SetMultiplexOut(mp)
    \/ GetMultiplexIn
    \/ GetMultiplexOut
    \/ \E p \in SendPayloads : SendMessage(DataMsg(p))
    \/ \E i \in 2..Len(MessageKinds) : SendMessage(OtherMsg(MessageKinds[i]))
    \/ \E p \in SendPayloads : SendData(p)
    \/ ReadMessage
    \/ \E d \in Delimiters : ReadRawUntil(d)
    \/ ReadInt
    \/ \E mux \in BOOLEAN, p \in Payloads : PeerSend(mux, p)
    \/ PeerClose
    \/ PeerReset

SocketSpec == SockInit /\ [][SockNext]_vars

----------------------------------------------------------------------------
(* main.rs: text of the preamble *)

\* "@RSYNCD: "
RSYNCD_PREFIX == <<64, 82, 83, 89, 78, 67, 68, 58, 32>>

VER_MAJOR == 31

VER_MINOR == 0

\* const MAX_LINE_LENGTH: usize = 64 (no code reads it)
MAX_LINE_LENGTH == 64

\* decimal digits of n, as write!("{}") formats an unsigned number
RECURSIVE Decimal(_)
Decimal(n) == IF n < 10 THEN <<48 + n>> ELSE Decimal(n \div 10) \o <<48 + (n % 10)>>

\* Version::serialize: "{}.{}"
Version_serialize(major, minor) == Decimal(major) \o <<46>> \o Decimal(minor)

\* std::str::from_utf8 accepts s from index i on
RECURSIVE Utf8From(_, _)
Utf8From(s, i) ==
    LET Cont(k) == k <= Len(s) /\ s[k] >= 128 /\ s[k] <= 191
        In(k, lo, hi) == k <= Len(s) /\ s[k] >= lo /\ s[k] <= hi
        b == s[i]
    IN  IF i > Len(s) THEN TRUE
        ELSE IF b < 128 THEN Utf8From(s, i + 1)
        ELSE IF b >= 194 /\ b <= 223 THEN Cont(i + 1) /\ Utf8From(s, i + 2)
        ELSE IF b = 224 THEN In(i + 1, 160, 191) /\ Cont(i + 2) /\ Utf8From(s, i + 3)
        ELSE IF b = 237 THEN In(i + 1, 128, 159) /\ Cont(i + 2) /\ Utf8From(s, i + 3)
        ELSE IF b >= 225 /\ b <= 239 THEN Cont(i + 1) /\ Cont(i + 2) /\ Utf8From(s, i + 3)
        ELSE IF b = 240
        THEN In(i + 1, 144, 191) /\ Cont(i + 2) /\ Cont(i + 3) /\ Utf8From(s, i + 4)
        ELSE IF b = 244
        THEN In(i + 1, 128, 143) /\ Cont(i + 2) /\ Cont(i + 3) /\ Utf8From(s, i + 4)
        ELSE IF b >= 241 /\ b <= 243
        THEN Cont(i + 1) /\ Cont(i + 2) /\ Cont(i + 3) /\ Utf8From(s, i + 4)
        ELSE FALSE

from_utf8_ok(s) == Utf8From(s, 1)

\* u32::from_str_radix(s, 10): an optional '+', then one or more digits, the
\* value at most u32::MAX.  The value is kept as 65536 * hi + lo.
RECURSIVE ParseDigits(_, _, _, _)
ParseDigits(s, i, hi, lo) ==
    IF i > Len(s) THEN [ok |-> TRUE, hi |-> hi, lo |-> lo]
    ELSE IF s[i] < 48 \/ s[i] > 57 THEN [ok |-> FALSE, hi |-> 0, lo |-> 0]
    ELSE LET l  == lo * 10 + (s[i] - 48)
             h  == hi * 10 + (l \div 65536)
         IN  IF h >= 65536 THEN [ok |-> FALSE, hi |-> 0, lo |-> 0]
             ELSE ParseDigits(s, i + 1, h, l % 65536)

u32_from_str_radix(s) ==
    LET digits == IF Len(s) > 0 /\ s[1] = 43 THEN Drop(s, 1) ELSE s
    IN  IF Len(digits) = 0 THEN [ok |-> FALSE, hi |-> 0, lo |-> 0]
        ELSE ParseDigits(digits, 1, 0, 0)

\* Version::parse that takes a minor it cannot parse for 0
Version_parse_minor_unchecked(data) ==
    LET i    == IndexOf(data, 46)
        rest == Drop(data, i)
        j    == IndexOf(rest, 46)
        vmaj == Take(data, i - 1)
        vmin == IF j = 0 THEN rest ELSE Take(rest, j - 1)
    IN  IF i = 0
        THEN [res |-> "Err", err |-> "IncompleteVersionSpecifier", major |-> 0, minor |-> 0]
        ELSE LET a == u32_from_str_radix(vmaj)
                 b == u32_from_str_radix(vmin)
             IN  IF a.ok
                 THEN [res |-> "Ok", err |-> "", major |-> a.hi * 65536 + a.lo,
                       minor |-> IF b.ok THEN b.hi * 65536 + b.lo ELSE 0]
                 ELSE [res |-> "Err", err |-> "InvalidVersionNumber",
                       major |-> 0, minor |-> 0]

\* Version::parse(data): data.split("."), the first two fields
Version_parse(data) ==
    LET i    == IndexOf(data, 46)
        rest == Drop(data, i)
        j    == IndexOf(rest, 46)
        vmaj == Take(data, i - 1)
        vmin == IF j = 0 THEN rest ELSE Take(rest, j - 1)
    IN  IF i = 0
        THEN [res |-> "Err", err |-> "IncompleteVersionSpecifier", major |-> 0, minor |-> 0]
        ELSE LET a == u32_from_str_radix(vmaj)
                 b == u32_from_str_radix(vmin)
             IN  IF a.ok /\ b.ok
                 THEN [res |-> "Ok", err |-> "", major |-> a.hi * 65536 + a.lo,
                       minor |-> b.hi * 65536 + b.lo]
                 ELSE [res |-> "Err", err |-> "InvalidVersionNumber",
                       major |-> 0, minor |-> 0]

\* Query::parse(data): "" and "#list" ask for the module list
Query_parse(data) ==
    IF data = <<>> \/ data = <<35, 108, 105, 115, 116>> THEN "ModuleList" ELSE "FileList"

----------------------------------------------------------------------------
(* main.rs: the operations of Rsyncd, as outcomes *)

\* the outcome of a read: what it returned, how many bytes it took off the
\* stream, and whether it ran into the end of the stream
Rd(res, err, line, used, eof) ==
    [res |-> res, err |-> err, line |-> line, used |-> used, eof |-> eof]

\* the outcome of a write
Wr(res, err, wrote) == [res |-> res, err |-> err, wrote |-> wrote]

\* TcpStream::write of a whole buffer
tcp_write(bytes, conn) ==
    IF conn = "reset" THEN Wr("Err", "Io", <<>>) ELSE Wr("Ok", "", bytes)

\* read_line(&mut self, delimiter): read_until, then data.len() - 1 bytes of
\* it as UTF-8.  With nothing read, data.len() - 1 overflows: a debug build
\* panics on the subtraction, a release build on the slice that follows.
read_line(delimiter, buf, conn) ==
    IF conn = "reset" THEN Rd("Err", "Io", <<>>, 0, FALSE)
    ELSE LET i    == IndexOf(buf, delimiter)
             n    == IF i = 0 THEN Len(buf) ELSE i
             data == Take(buf, n)
         IN  IF n = 0 THEN Rd("Panic", "", <<>>, 0, TRUE)
             ELSE IF from_utf8_ok(Take(data, n - 1))
                  THEN Rd("Ok", "", Take(data, n - 1), n, i = 0)
                  ELSE Rd("Err", "InvalidInput", <<>>, n, i = 0)

\* read_init(&mut self)
read_init(buf, conn) ==
    LET r == read_line(10, buf, conn)
    IN  IF r.res # "Ok" THEN r
        ELSE IF IsPrefix(RSYNCD_PREFIX, r.line)
        THEN LET v == Version_parse(Drop(r.line, 9))
             IN  IF v.res = "Ok"
                 THEN Rd("Ok", "", <<v.major, v.minor>>, r.used, r.eof)
                 ELSE Rd("Err", v.err, <<>>, r.used, r.eof)
        ELSE Rd("Err", "InvalidHeader", <<>>, r.used, r.eof)

\* send_init(&mut self)
send_init(conn) ==
    tcp_write(RSYNCD_PREFIX \o Version_serialize(VER_MAJOR, VER_MINOR) \o <<10>>, conn)

\* read_query(&mut self)
read_query(buf, conn) ==
    LET r == read_line(10, buf, conn)
    IN  IF r.res # "Ok" THEN r ELSE Rd("Ok", "", <<Query_parse(r.line)>>, r.used, r.eof)

\* server_send_ok(&mut self): "@RSYNCD: OK\n"
server_send_ok(conn) == tcp_write(RSYNCD_PREFIX \o <<79, 75, 10>>, conn)

\* server_read_args(&mut self): read_line(0x00) until it returns ""
RECURSIVE server_read_args(_, _)
server_read_args(buf, conn) ==
    LET r == read_line(0, buf, conn)
    IN  IF r.res # "Ok" THEN r
        ELSE IF Len(r.line) = 0 THEN Rd("Ok", "", <<>>, r.used, r.eof)
        ELSE LET t == server_read_args(Drop(buf, r.used), conn)
             IN  Rd(t.res, t.err, IF t.res = "Ok" THEN <<r.line>> \o t.line ELSE <<>>,
                    r.used + t.used, r.eof \/ t.eof)

\* "module_one\nmodule_two\nmodule_three\n"
MODULE_LIST ==
    <<109, 111, 100, 117, 108, 101, 95, 111, 110, 101, 10,
      109, 111, 100, 117, 108, 101, 95, 116, 119, 111, 10,
      109, 111, 100, 117, 108, 101, 95, 116, 104, 114, 101, 101, 10>>

\* send_module_list(&mut self): the text goes out as it is, without a header
\* (main never calls it)
send_module_list(conn) == tcp_write(MODULE_LIST, conn)

\* Rsyncd::msg_from_header
Rsyncd_msg_from_header(data) ==
    << (data[4] + 256 - 7) % 256, data[3] * 65536 + data[2] * 256 + data[1] >>

\* Rsyncd::msg_to_header(RsyncMessage::Data { length })
Rsyncd_msg_to_header(length) ==
    << U8(length), U8(Shr(length, 8)), U8(Shr(length, 16)), 7 >>

\* read_exact(n bytes)
read_exact(n, buf, conn) ==
    IF conn = "reset" THEN Rd("Err", "Io", <<>>, 0, FALSE)
    ELSE IF Len(buf) < n THEN Rd("Err", "Io", <<>>, Len(buf), TRUE)
    ELSE Rd("Ok", "", Take(buf, n), n, FALSE)

\* Rsyncd::read_message(&mut self): the header only; line is <<length>>
Rsyncd_read_message(buf, conn) ==
    LET r == read_exact(4, buf, conn)
    IN  IF r.res # "Ok" THEN r
        ELSE LET hdr == Rsyncd_msg_from_header(r.line)
             IN  IF hdr[1] = 0 THEN Rd("Ok", "", <<hdr[2]>>, 4, FALSE)
                 ELSE Rd("Err", "Unsupported", <<>>, 4, FALSE)

\* send_compat_flags(&mut self)
send_compat_flags(conn) == tcp_write(<<0>>, conn)

\* u32::to_le_bytes
u32_to_le_bytes(x) == << U8(x), U8(Shr(x, 8)), U8(Shr(x, 16)), U8(Shr(x, 24)) >>

\* checksum_seed: 1
checksum_seed == 1

\* send_checksum_seed(&mut self)
send_checksum_seed(conn) == tcp_write(u32_to_le_bytes(checksum_seed), conn)

----------------------------------------------------------------------------
(* main.rs: the varint and the file list *)

\* a u64 is held as its eight little-endian bytes (u64::to_le_bytes); U64(n)
\* is that of a number below 2^31
U64(n) == << U8(n), U8(Shr(n, 8)), U8(Shr(n, 16)), U8(Shr(n, 24)), 0, 0, 0, 0 >>

RECURSIVE BitOr(_, _, _)
BitOr(a, b, bits) ==
    IF bits = 0 THEN 0
    ELSE (IF a % 2 = 1 \/ b % 2 = 1 THEN 1 ELSE 0) + 2 * BitOr(a \div 2, b \div 2, bits - 1)

\* !x on a u8
Not8(x) == 255 - x

SetMax(S) == CHOOSE x \in S : \A y \in S : y <= x

\* write_varlong that puts the leading byte after the value bytes
write_varlong_lead_byte_last(value, min_size, build) ==
    LET bytes(k)   == IF k = 0 THEN 0 ELSE value[k]
        high       == { k \in (min_size + 1)..8 : value[k] # 0 }
        byte_count == IF min_size >= 8 THEN 8
                      ELSE IF high = {} THEN min_size ELSE SetMax(high)
        bit_magic  == 2 ^ (7 - byte_count + min_size)
        last_byte  == bytes(byte_count)
        tail(n)    == [k \in 1..(n - 1) |-> bytes(k)]
    IN  IF build = "debug" /\ byte_count > 7
        THEN [res |-> "Panic", bytes |-> <<>>]
        ELSE IF last_byte >= bit_magic
        THEN [res |-> "Ok",
              bytes |-> tail(byte_count + 1) \o <<Not8(bit_magic - 1)>>]
        ELSE IF byte_count > min_size
        THEN [res |-> "Ok",
              bytes |-> tail(byte_count)
                        \o <<BitOr(last_byte, Not8(U8(bit_magic * 2) - 1), 8)>>]
        ELSE [res |-> "Ok", bytes |-> tail(byte_count) \o <<last_byte>>]

\* write_varlong(value, min_size, buffer): the bytes appended to buffer.
\* 7 - byte_count overflows usize when byte_count is 8: a debug build
\* panics there, a release build wraps and goes on.
write_varlong(value, min_size, build) ==
    LET bytes(k)   == IF k = 0 THEN 0 ELSE value[k]
        high       == { k \in (min_size + 1)..8 : value[k] # 0 }
        byte_count == IF min_size >= 8 THEN 8
                      ELSE IF high = {} THEN min_size ELSE SetMax(high)
        bit_magic  == 2 ^ (7 - byte_count + min_size)
        last_byte  == bytes(byte_count)
        tail(n)    == [k \in 1..(n - 1) |-> bytes(k)]
    IN  IF build = "debug" /\ byte_count > 7
        THEN [res |-> "Panic", bytes |-> <<>>]
        ELSE IF last_byte >= bit_magic
        THEN [res |-> "Ok",
              bytes |-> <<Not8(bit_magic - 1)>> \o tail(byte_count + 1)]
        ELSE IF byte_count > min_size
        THEN [res |-> "Ok",
              bytes |-> <<BitOr(last_byte, Not8(U8(bit_magic * 2) - 1), 8)>>
                        \o tail(byte_count)]
        ELSE [res |-> "Ok", bytes |-> <<last_byte>> \o tail(byte_count)]

\* struct File of main.rs
MkFile(dirname, basename, modtime, filelen, mode, flags, name_type) ==
    [dirname |-> dirname, basename |-> basename, modtime |-> modtime,
     filelen |-> filelen, mode |-> mode, flags |-> flags, name_type |-> name_type]

\* the body of the loop of send_file_list: what one file appends to data
file_entry(file, build) ==
    LET v == write_varlong(file.filelen, 3, build)
    IN  [res |-> v.res,
         bytes |-> <<4, 0>> \o <<U8(Len(file.basename))>> \o file.basename
                   \o v.bytes \o u32_to_le_bytes(file.modtime)
                   \o u32_to_le_bytes(file.mode)]

RECURSIVE file_entries(_, _)
file_entries(file_list, build) ==
    IF file_list = <<>> THEN [res |-> "Ok", bytes |-> <<>>]
    ELSE LET e == file_entry(Head(file_list), build)
         IN  IF e.res # "Ok" THEN [res |-> e.res, bytes |-> <<>>]
             ELSE LET t == file_entries(Tail(file_list), build)
                  IN  [res |-> t.res, bytes |-> e.bytes \o t.bytes]

\* send_file_list without the end-of-list byte
send_file_list_no_sentinel(file_list, conn, build) ==
    LET es     == file_entries(file_list, build)
        data   == es.bytes
        header == Rsyncd_msg_to_header(Len(data))
    IN  IF es.res # "Ok"
        THEN [res |-> "Panic", err |-> "", data |-> <<>>, wrote |-> <<>>]
        ELSE IF conn = "reset"
        THEN [res |-> "Err", err |-> "Io", data |-> data, wrote |-> <<>>]
        ELSE [res |-> "Ok", err |-> "", data |-> data, wrote |-> header \o data]

\* send_file_list(&mut self, file_list): data is the payload built, wrote
\* what reached the stream
send_file_list(file_list, conn, build) ==
    LET es     == file_entries(file_list, build)
        data   == es.bytes \o <<0>>
        header == Rsyncd_msg_to_header(Len(data))
    IN  IF es.res # "Ok"
        THEN [res |-> "Panic", err |-> "", data |-> <<>>, wrote |-> <<>>]
        ELSE IF conn = "reset"
        THEN [res |-> "Err", err |-> "Io", data |-> data, wrote |-> <<>>]
        ELSE [res |-> "Ok", err |-> "", data |-> data, wrote |-> header \o data]

\* the list main sends: "." and "base_name" (0xDEADBEEF bytes long)
MainFileList ==
    << MkFile(<<100, 111, 116>>, <<46>>, 5, U64(420), 493, 1, "DotDir"),
       MkFile(<<100, 111, 116>>, <<98, 97, 115, 101, 95, 110, 97, 109, 101>>, 5,
              <<239, 190, 173, 222, 0, 0, 0, 0>>, 493, 1, "Normal") >>

----------------------------------------------------------------------------
(* file_list.rs: the xfer flags and the entry of one file *)

\* XferFlags::TOP_DIR
TOP_DIR == 1

\* XferFlags::EXTENDED_FLAGS
EXTENDED_FLAGS == 4

\* flags.contains(bit), bit a power of two
contains(flags, bit) == (flags \div bit) % 2 = 1

\* File::get_full_name: dirname.push(basename).  An absolute basename replaces
\* dirname; otherwise a '/' goes between the two unless dirname is empty or
\* ends with one.
get_full_name(file) ==
    IF Len(file.basename) > 0 /\ file.basename[1] = 47 THEN file.basename
    ELSE IF Len(file.dirname) = 0 \/ file.dirname[Len(file.dirname)] = 47
    THEN file.dirname \o file.basename
    ELSE file.dirname \o <<47>> \o file.basename

\* XferFlags::for_file that sets TOP_DIR on a directory too
for_file_top_dir_always(file, is_dir) ==
    IF Len(get_full_name(file)) > 255 THEN [res |-> "Panic", flags |-> 0]
    ELSE [res |-> "Ok", flags |-> TOP_DIR]

\* XferFlags::for_file(file, None); is_dir is what the file system answers
\* File::is_directory.  A full name longer than 255 bytes ends in todo!().
for_file(file, is_dir) ==
    IF Len(get_full_name(file)) > 255 THEN [res |-> "Panic", flags |-> 0]
    ELSE LET f1 == IF ~is_dir THEN BitOr(0, TOP_DIR, 32) ELSE 0
             f2 == IF f1 > 255 THEN BitOr(f1, EXTENDED_FLAGS, 32) ELSE f1
         IN  [res |-> "Ok", flags |-> f2]

\* XferFlags::write_data_bytes: the low byte, and the second byte when
\* EXTENDED_FLAGS is set
XferFlags_write_data_bytes(flags) ==
    <<U8(flags)>> \o (IF contains(flags, EXTENDED_FLAGS) THEN <<U8(Shr(flags, 8))>>
                      ELSE <<>>)

\* File::write_data_bytes(&self, buffer): bytes is what it appended to buffer,
\* also when it panics on the way
File_write_data_bytes(file, is_dir, build) ==
    LET x    == for_file(file, is_dir)
        head == XferFlags_write_data_bytes(x.flags) \o <<U8(Len(file.basename))>>
                    \o file.basename
        v    == write_varlong(file.filelen, 3, build)
    IN  IF x.res # "Ok" THEN [res |-> "Panic", err |-> "", bytes |-> <<>>]
        ELSE IF v.res # "Ok" THEN [res |-> "Panic", err |-> "", bytes |-> head]
        ELSE [res |-> "Ok", err |-> "",
              bytes |-> head \o v.bytes \o u32_to_le_bytes(file.modtime)
                        \o u32_to_le_bytes(file.mode)]

----------------------------------------------------------------------------
(* main.rs: main, one session per accepted connection *)

\* what a client may send: a version line, a query line, the arguments, and
\* its first frame; the connection may end after any byte of it
VersionLines ==
    { RSYNCD_PREFIX \o <<51, 49, 46, 48, 10>>,      \* "@RSYNCD: 31.0\n"
      RSYNCD_PREFIX \o <<51, 49, 10>>,              \* "@RSYNCD: 31\n"
      RSYNCD_PREFIX \o <<120, 46, 48, 10>>,         \* "@RSYNCD: x.0\n"
      RSYNCD_PREFIX \o <<51, 49, 46, 120, 10>>,     \* "@RSYNCD: 31.x\n"
      RSYNCD_PREFIX \o <<43, 51, 49, 46, 48, 10>>,  \* "@RSYNCD: +31.0\n"
      RSYNCD_PREFIX \o <<45, 49, 46, 48, 10>>,      \* "@RSYNCD: -1.0\n"
      RSYNCD_PREFIX \o <<50, 55, 46, 48, 55, 46, 57, 10>>,   \* "@RSYNCD: 27.07.9\n"
      RSYNCD_PREFIX \o <<46, 48, 10>>,              \* "@RSYNCD: .0\n"
      RSYNCD_PREFIX \o <<10>>,                      \* "@RSYNCD: \n"
      \* "@RSYNCD: 4294967296.0\n": one more than u32::MAX
      RSYNCD_PREFIX \o <<52, 50, 57, 52, 57, 54, 55, 50, 57, 54, 46, 48, 10>>,
      <<64, 82, 83, 89, 78, 67, 68, 58, 51, 49, 46, 48, 10>>,  \* "@RSYNCD:31.0\n"
      <<72, 73, 10>>,                               \* "HI\n"
      <<255, 10>> }                                 \* not UTF-8

QueryLines == { <<10>>, <<35, 108, 105, 115, 116, 10>>, <<109, 10>> }

ArgBlocks == { <<0>>, <<97, 0, 0>> }

ClientFrames == { <<0, 0, 0, 7>>, <<1, 0, 0, 7, 9>>, <<0, 0, 0, 8>> }

\* a client whose version line, query line or argument is longer than
\* MAX_LINE_LENGTH
LongLineScripts ==
    LET ok    == RSYNCD_PREFIX \o <<51, 49, 46, 48, 10>>
        Rep(b) == [i \in 1..(MAX_LINE_LENGTH + 2) |-> b]
    IN  { RSYNCD_PREFIX \o <<51, 49, 46>> \o Rep(48) \o <<10, 10, 0, 0, 0, 0, 7>>,
          ok \o Rep(109) \o <<10, 0, 0, 0, 0, 7>>,
          ok \o <<10>> \o Rep(97) \o <<0, 0, 0, 0, 0, 7>> }

ClientScripts ==
    { v \o q \o a \o f : v \in VersionLines, q \in QueryLines,
                         a \in ArgBlocks, f \in ClientFrames }
        \cup LongLineScripts

ClientStreams == UNION { { Take(c, k) : k \in 0..Len(c) } : c \in ClientScripts }

\* the build of the binary: overflow checks are on in a debug build
Builds == {"debug", "release"}

\* main with the compat byte sent before the arguments are read
main_next_compat_first(s) ==
    CASE s = "send_init"          -> "read_init"
      [] s = "read_init"          -> "read_query"
      [] s = "read_query"         -> "server_send_ok"
      [] s = "server_send_ok"     -> "send_compat_flags"
      [] s = "send_compat_flags"  -> "server_read_args"
      [] s = "server_read_args"   -> "send_checksum_seed"
      [] s = "send_checksum_seed" -> "read_message"
      [] s = "read_message"       -> "read_data"
      [] s = "read_data"          -> "send_file_list"
      [] s = "send_file_list"     -> "sleep"

\* the statement of main that follows statement s when main goes on
main_next(s) ==
    CASE s = "send_init"          -> "read_init"
      [] s = "read_init"          -> "read_query"
      [] s = "read_query"         -> "server_send_ok"
      [] s = "server_send_ok"     -> "server_read_args"
      [] s = "server_read_args"   -> "send_compat_flags"
      [] s = "send_compat_flags"  -> "send_checksum_seed"
      [] s = "send_checksum_seed" -> "read_message"
      [] s = "read_message"       -> "read_data"
      [] s = "read_data"          -> "send_file_list"
      [] s = "send_file_list"     -> "sleep"

\* where main is after statement s gave outcome res; `question` says that
\* main applies ? to the result, otherwise it prints or drops it
main_after(s, res, question) ==
    IF res = "Panic" THEN "panicked"
    ELSE IF res = "Err" /\ question THEN "exited"
    ELSE main_next(s)

\* one I/O statement of main as it went: what it wrote, the bytes it took off
\* the stream, and the value it returned
LogEntry(what, io, res, err, eof, wrote, took, ret) ==
    [what |-> what, io |-> io, res |-> res, err |-> err, eof |-> eof, wrote |-> wrote,
     took |-> took, ret |-> ret]

\* a statement that reads, with outcome r
ReadStep(what, r, question) ==
    /\ pc = what
    /\ pc' = main_after(what, r.res, question)
    /\ sin' = Drop(sin, r.used)
    /\ main_message' = IF what = "read_message" /\ r.res = "Ok" THEN r.line[1]
                       ELSE main_message
    /\ log' = Append(log, LogEntry(what, "read", r.res, r.err, r.eof, <<>>,
                                   Take(sin, r.used), r.line))
    /\ UNCHANGED <<sconn, sout, sockVars, codecVars, profile>>

\* a statement that writes, with outcome w
WriteStep(what, w, question) ==
    /\ pc = what
    /\ pc' = main_after(what, w.res, question)
    /\ sout' = sout \o w.wrote
    /\ log' = Append(log, LogEntry(what, "write", w.res, w.err, FALSE, w.wrote,
                                   <<>>, <<>>))
    /\ UNCHANGED <<sin, sconn, main_message, sockVars, codecVars, profile>>

\* socket.incoming().next(): a client connects
Accept ==
    /\ pc = "accept"
    /\ \E c \in ClientStreams : sin' = c
    /\ pc' = "send_init"
    /\ sconn' = "open"
    /\ sout' = <<>>
    /\ main_message' = -1
    /\ log' = <<>>
    /\ UNCHANGED <<sockVars, codecVars, profile>>

\* the connection breaks under the session
ConnReset ==
    /\ pc \notin {"accept", "sleep", "exited", "panicked"}
    /\ sconn = "open"
    /\ sconn' = "reset"
    /\ sin' = <<>>
    /\ UNCHANGED <<pc, sout, main_message, log, sockVars, codecVars, profile>>

SendInit == WriteStep("send_init", send_init(sconn), FALSE)

ReadInit == ReadStep("read_init", read_init(sin, sconn), FALSE)

ReadQuery == ReadStep("read_query", read_query(sin, sconn), FALSE)

ServerSendOk == WriteStep("server_send_ok", server_send_ok(sconn), FALSE)

ServerReadArgs == ReadStep("server_read_args", server_read_args(sin, sconn), FALSE)

SendCompatFlags == WriteStep("send_compat_flags", send_compat_flags(sconn), FALSE)

SendChecksumSeed == WriteStep("send_checksum_seed", send_checksum_seed(sconn), FALSE)

\* let message = rsyncd.read_message()?;
MainReadMessage == ReadStep("read_message", Rsyncd_read_message(sin, sconn), TRUE)

\* rsyncd.tcp_read.read_exact(&mut data)?; of the length the header gave
MainReadData == ReadStep("read_data", read_exact(main_message, sin, sconn), TRUE)

SendFileList ==
    WriteStep("send_file_list", send_file_list(MainFileList, sconn, profile), FALSE)

\* thread::sleep, then the next turn of the loop drops the connection
EndSession ==
    /\ pc = "sleep"
    /\ pc' = "accept"
    /\ sin' = <<>>
    /\ sconn' = "open"
    /\ sout' = <<>>
    /\ main_message' = -1
    /\ log' = <<>>
    /\ UNCHANGED <<sockVars, codecVars, profile>>

Init == SockIdle /\ SessIdle /\ CodecIdle /\ profile \in Builds

Next ==
    \/ Accept
    \/ ConnReset
    \/ SendInit
    \/ ReadInit
    \/ ReadQuery
    \/ ServerSendOk
    \/ ServerReadArgs
    \/ SendCompatFlags
    \/ SendChecksumSeed
    \/ MainReadMessage
    \/ MainReadData
    \/ SendFileList
    \/ EndSession

Spec == Init /\ [][Next]_vars

----------------------------------------------------------------------------
(* main.rs: send_file_list on any list *)

\* longest file list handed to send_file_list
MaxFiles == 2

\* files of every shape of the length field: three bytes, a marker byte with
\* one to five length bits, and a length whose top byte is set; the entry "."
\* of mode 0o40755; a name of 256 bytes
FileCases ==
    { MkFile(<<100>>, <<46>>, 5, U64(420), 493, 1, "DotDir"),
      MkFile(<<100>>, <<46>>, 5, U64(420), 16877, 0, "DotDir"),
      MkFile(<<100>>, <<98, 97, 115, 101>>, 5, <<239, 190, 173, 222, 0, 0, 0, 0>>,
             493, 1, "Normal"),
      MkFile(<<>>, <<>>, 0, U64(0), 0, 0, "Normal"),
      MkFile(<<100>>, <<97>>, 65536, <<255, 255, 255, 255, 255, 0, 0, 0>>, 33188, 0,
             "Normal"),
      MkFile(<<100>>, <<0, 0>>, 16777216, <<0, 0, 128, 0, 0, 0, 0, 0>>, 16877, 0,
             "SlashEnding"),
      MkFile(<<100>>, <<98>>, 1, <<1, 0, 0, 0, 0, 0, 0, 1>>, 1, 0, "Missing"),
      MkFile(<<100>>, [i \in 1..256 |-> 97], 5, U64(1), 33188, 0, "Normal") }

\* the values handed to write_varlong: the top non-zero byte at every place,
\* just below and at every mark, over low bytes of zeros, ones and a pattern
VarlongValues ==
    { [i \in 1..8 |-> IF i < k THEN f ELSE IF i = k THEN t ELSE 0] :
          k \in 0..8, t \in {1, 3, 4, 7, 8, 15, 16, 31, 32, 63, 64, 127, 128, 255},
          f \in {0, 255, 164} }
        \cup { U64(420), <<239, 190, 173, 222, 0, 0, 0, 0>> }

\* the min_size handed to write_varlong (the callers pass 3)
MinSizes == 1..8

\* nothing is being encoded
NoCodecCall == enc = NoEnc /\ entry = NoEntry /\ varlong = NoVarlong /\ bulk = NoBulk

\* the caller picks the next file of the list; is_dir is what the file
\* system has at its full name
AddFile(f, is_dir) ==
    /\ NoCodecCall
    /\ Len(flist) < MaxFiles
    /\ flist' = Append(flist, f)
    /\ fsdir' = Append(fsdir, is_dir)
    /\ UNCHANGED <<enc, entry, varlong, bulk, sockVars, sessVars, profile>>

\* send_file_list(&file_list) on a connection in state conn
EncodeFileList(conn) ==
    /\ NoCodecCall
    /\ enc' = send_file_list(flist, conn, profile)
    /\ UNCHANGED <<flist, fsdir, entry, varlong, bulk, sockVars, sessVars, profile>>

\* the caller drops the list
DropFileList ==
    /\ enc # NoEnc
    /\ flist' = <<>>
    /\ fsdir' = <<>>
    /\ enc' = NoEnc
    /\ UNCHANGED <<entry, varlong, bulk, sockVars, sessVars, profile>>

\* file.write_data_bytes(&mut buffer) on an empty buffer
WriteDataBytes(f, is_dir) ==
    /\ NoCodecCall
    /\ flist = <<>>
    /\ LET r == File_write_data_bytes(f, is_dir, profile)
       IN  entry' = [file |-> f, is_dir |-> is_dir, res |-> r.res, err |-> r.err,
                     bytes |-> r.bytes]
    /\ UNCHANGED <<flist, fsdir, enc, varlong, bulk, sockVars, sessVars, profile>>

\* the caller drops the buffer
DropEntry ==
    /\ entry # NoEntry
    /\ entry' = NoEntry
    /\ UNCHANGED <<flist, fsdir, enc, varlong, bulk, sockVars, sessVars, profile>>

\* write_varlong(value, min_size, &mut buffer) on an empty buffer
WriteVarlong(value, min_size) ==
    /\ NoCodecCall
    /\ flist = <<>>
    /\ LET r == write_varlong(value, min_size, profile)
       IN  varlong' = [value |-> value, min_size |-> min_size, res |-> r.res,
                       bytes |-> r.bytes]
    /\ UNCHANGED <<flist, fsdir, enc, entry, bulk, sockVars, sessVars, profile>>

\* the caller drops the buffer
DropVarlong ==
    /\ varlong # NoVarlong
    /\ varlong' = NoVarlong
    /\ UNCHANGED <<flist, fsdir, enc, entry, bulk, sockVars, sessVars, profile>>

\* the file every entry of a long list is a copy of: "." of 420 bytes
BulkFile == MkFile(<<100>>, <<46>>, 5, U64(420), 493, 1, "DotDir")

\* how many files a long list has: none, one, and as many as bring the
\* payload just below 2^24 bytes, to 2^24 and to 2^25 - 1
BulkCounts == {0, 1, 1118480, 1118481, 2236962}

\* send_file_list on a list of `count` copies of `file`, followed through
\* data.len(): the loop appends the entry of the file count times, the
\* end-of-list byte follows, the header is made of data.len(), and the two
\* writes send the header and then all of data
send_file_list_len(file, count, conn, build) ==
    LET e        == file_entry(file, build)
        data_len == count * Len(e.bytes) + 1
    IN  IF e.res # "Ok" /\ count > 0
        THEN [count |-> count, res |-> "Panic", header |-> <<>>, payload_len |-> 0]
        ELSE IF conn = "reset"
        THEN [count |-> count, res |-> "Err", header |-> <<>>, payload_len |-> 0]
        ELSE [count |-> count, res |-> "Ok", header |-> Rsyncd_msg_to_header(data_len),
              payload_len |-> data_len]

\* send_file_list(&file_list) on a long list
EncodeLongFileList(count, conn) ==
    /\ NoCodecCall
    /\ flist = <<>>
    /\ bulk' = send_file_list_len(BulkFile, count, conn, profile)
    /\ UNCHANGED <<flist, fsdir, enc, entry, varlong, sockVars, sessVars, profile>>

\* the caller drops the long list
DropLongFileList ==
    /\ bulk # NoBulk
    /\ bulk' = NoBulk
    /\ UNCHANGED <<flist, fsdir, enc, entry, varlong, sockVars, sessVars, profile>>

CodecNext ==
    \/ \E f \in FileCases, is_dir \in BOOLEAN : AddFile(f, is_dir)
    \/ \E conn \in {"open", "reset"} : EncodeFileList(conn)
    \/ DropFileList
    \/ \E f \in FileCases, is_dir \in BOOLEAN : WriteDataBytes(f, is_dir)
    \/ DropEntry
    \/ \E value \in VarlongValues, min_size \in MinSizes : WriteVarlong(value, min_size)
    \/ DropVarlong
    \/ \E count \in BulkCounts, conn \in {"open", "reset"} : EncodeLongFileList(count, conn)
    \/ DropLongFileList

CodecSpec == Init /\ [][CodecNext]_vars

----------------------------------------------------------------------------
(* Properties of the session of main.rs, checked under Spec *)

\* the order of the session state machine: the preamble, the peer's version,
\* the query, OK, the arguments, the compat byte, the seed, the client's Data
\* message (its header, then its payload), the file list
SessionOrder ==
    << "send_init", "read_init", "read_query", "server_send_ok", "server_read_args",
       "send_compat_flags", "send_checksum_seed", "read_message", "read_data",
       "send_file_list" >>

SessionIo ==
    << "write", "read", "read", "write", "read", "write", "write", "read", "read",
       "write" >>

\* what each write of the session puts on the stream when it succeeds
SessionBytes(i) ==
    CASE i = 1 -> <<64, 82, 83, 89, 78, 67, 68, 58, 32, 51, 49, 46, 48, 10>>
      [] i = 4 -> <<64, 82, 83, 89, 78, 67, 68, 58, 32, 79, 75, 10>>
      [] i = 6 -> <<0>>
      [] i = 7 -> <<1, 0, 0, 0>>
      [] OTHER -> <<>>

RECURSIVE Written(_)
Written(l) == IF l = <<>> THEN <<>> ELSE Head(l).wrote \o Written(Tail(l))

\* C1: in every session the I/O steps run in exactly the order of the session
\* state machine: the steps done so far are the first steps of that order,
\* each of them once, the step that runs next is the one that follows them, a
\* session that reaches its end has run them all, and the preamble, OK, the
\* compat byte and the seed are the bytes of the protocol.
Thm_C1_SessionOrder ==
    /\ Len(log) <= Len(SessionOrder)
    /\ \A i \in 1..Len(log) :
          /\ log[i].what = SessionOrder[i]
          /\ log[i].io = SessionIo[i]
          /\ (log[i].res = "Ok" /\ i \in {1, 4, 6, 7}) => log[i].wrote = SessionBytes(i)
    /\ sout = Written(log)
    /\ pc \notin {"accept", "sleep", "exited", "panicked"}
          => (Len(log) < Len(SessionOrder) /\ pc = SessionOrder[Len(log) + 1])
    /\ pc = "sleep" => Len(log) = Len(SessionOrder)
    /\ pc = "accept" => log = <<>>

\* a session that ran every step, each with success
Wit_C1_SessionOrder ==
    /\ pc = "sleep"
    /\ Len(log) = Len(SessionOrder)
    /\ \A i \in 1..Len(log) : log[i].res = "Ok"

\* C4 as claimed: once a step of the session has returned an error, the
\* session does no further read or write on the connection.
Cex_C4_ErrorEndsSession ==
    \A i \in 1..Len(log) : log[i].res = "Err" => i = Len(log)

\* C5 as claimed: a read that runs into the end of the stream ends as an
\* error that ends the session; it neither aborts the program nor returns a
\* line as if the read had succeeded.
Cex_C5_EofIsAnError ==
    \A i \in 1..Len(log) :
        log[i].eof => (log[i].res = "Err" /\ i = Len(log) /\ pc = "exited")

----------------------------------------------------------------------------
(* Properties of RsyncSocket, checked under SocketSpec *)

\* C2: read_raw_until on a socket in multiplexed mode fails with
\* RawReadWhileMultiplexed and read_message on a socket in raw mode fails with
\* ReadMessageWhileNotMultiplexed; neither takes a byte off the stream.
Thm_C2_ModeDiscipline ==
    /\ (last.op = "read_raw_until" /\ last.mode)
          => (last.res = "Err" /\ last.err = "RawReadWhileMultiplexed" /\ last.got = <<>>)
    /\ (last.op = "read_message" /\ ~last.mode)
          => (last.res = "Err" /\ last.err = "ReadMessageWhileNotMultiplexed"
              /\ last.got = <<>>)

\* read_raw_until refused in multiplexed mode although a whole line waits
Wit_C2_ModeDiscipline ==
    /\ last.op = "read_raw_until"
    /\ last.mode
    /\ last.err = "RawReadWhileMultiplexed"
    /\ IndexOf(rd, last.arg) # 0

\* C3 as claimed: the multiplexed mode flag starts false and, over any
\* sequence of operations on the socket, is never true and then false again.
Cex_C3_FlagNeverFlipsBack ==
    (multiplex_in = FALSE) /\ [][multiplex_in => multiplex_in']_vars

\* lengths around every byte boundary of the 24-bit length field
LengthCases ==
    { 0, 1, 255, 256, 257, 65535, 65536, 65537, 16777215, 16777216, 16777217 }

\* the bytes send_message(Data(p)) writes on a socket multiplexed for output
Frame(p) == send_message(TRUE, DataMsg(p), "open").wrote

\* C6: on a socket multiplexed for input, read_message applied to a stream
\* that starts with the bytes send_message(Data(p)) wrote on a socket
\* multiplexed for output returns Data(p) and takes exactly those bytes; and
\* the header of every length below 2^24 decodes to tag 0 and that length.
Thm_C6_FrameRoundTrip ==
    /\ (last.op = "read_message" /\ last.mode)
          => \A p \in Payloads :
                IsPrefix(Frame(p), last.got \o rd)
                   => (last.res = "Ok" /\ last.kind = "Data" /\ last.data = p
                       /\ last.got = Frame(p))
    /\ \A n \in LengthCases :
          n < 16777216 => msg_from_header(DataHeader(n)) = <<0, n>>

\* read_message returned a non-empty payload that the peer framed
Wit_C6_FrameRoundTrip ==
    /\ last.op = "read_message"
    /\ last.mode
    /\ last.res = "Ok"
    /\ Len(last.data) > 0
    /\ last.got = Frame(last.data)

\* C7: on a socket multiplexed for output, send_message(Data(p)) that
\* succeeds writes four header bytes and then p: the first three bytes are the
\* length of p, low byte first, and the fourth is 0x07.
Thm_C7_DataHeader ==
    /\ (last.op \in {"send_message", "send_data"} /\ last.mode /\ last.kind = "Data"
        /\ last.res = "Ok")
          => /\ Len(last.wrote) = 4 + Len(last.data)
             /\ Drop(last.wrote, 4) = last.data
             /\ last.wrote[1] + 256 * last.wrote[2] + 65536 * last.wrote[3]
                   = Len(last.data)
             /\ last.wrote[4] = 7
    /\ \A n \in LengthCases :
          LET g == DataHeader(n)
          IN  /\ Len(g) = 4
              /\ \A i \in 1..4 : g[i] \in 0..255
              /\ g[1] + 256 * g[2] + 65536 * g[3] = n % 16777216
              /\ g[4] = 7

\* a Data message with a payload went out framed
Wit_C7_DataHeader ==
    /\ last.op = "send_message"
    /\ last.mode
    /\ last.kind = "Data"
    /\ last.res = "Ok"
    /\ Len(last.data) > 0

\* the tags of the taxonomy, Data to NoSend, as the enum numbers them
DefinedTags == 0..17

\* C8 as claimed: read_message on a multiplexed socket returns every tag of
\* the taxonomy as its own message kind, and UnsupportedMessageType only for
\* a tag outside the taxonomy.
Cex_C8_DefinedTagsDecoded ==
    (last.op = "read_message" /\ last.mode /\ Len(last.got) >= 4)
       => LET tag == msg_from_header(Take(last.got, 4))[1]
          IN  /\ (tag \in DefinedTags /\ tag # 0)
                    => (last.res = "Ok" /\ last.kind = MessageKinds[tag + 1])
              /\ last.err = "UnsupportedMessageType" => tag \notin DefinedTags

\* C9: on a socket in raw mode, send_message accepts only Data: Data(p) is
\* written as the bytes of p and nothing else, and any other message returns
\* the non-Data error (SendError::NonDataWhileMultiplexed) with nothing written.
Thm_C9_RawSend ==
    (last.op = "send_message" /\ ~last.mode)
       => /\ last.kind = "Data"
                => \/ last.res = "Ok" /\ last.wrote = last.data
                   \/ last.res = "Err" /\ last.err = "Io" /\ last.wrote = <<>>
          /\ last.kind # "Data"
                => (last.res = "Err" /\ last.err = "NonDataWhileMultiplexed"
                    /\ last.wrote = <<>>)

\* a non-Data message refused in raw mode
Wit_C9_RawSend ==
    /\ last.op = "send_message"
    /\ ~last.mode
    /\ last.kind = "Info"
    /\ last.err = "NonDataWhileMultiplexed"

----------------------------------------------------------------------------
(* Properties of send_file_list, checked under CodecSpec *)

\* the number of leading one bits of a byte
LeadingOnes(b) ==
    CHOOSE n \in 0..8 :
        /\ \A i \in 1..n : (b \div (2 ^ (8 - i))) % 2 = 1
        /\ n = 8 \/ (b \div (2 ^ (7 - n))) % 2 = 0

\* where the entries of `files` end in data when they start after pos: per
\* entry the xfer flags (two bytes when EXTENDED_FLAGS, bit 2, is set), the
\* name length, the name, the varint (three bytes and one more per leading
\* one bit of its first byte), the mtime and the mode; -1 when data is too short
RECURSIVE EntriesEnd(_, _, _)
EntriesEnd(data, files, pos) ==
    IF files = <<>> THEN pos
    ELSE IF pos < 0 \/ pos + 1 > Len(data) THEN -1
    ELSE LET nflags == IF (data[pos + 1] \div 4) % 2 = 1 THEN 2 ELSE 1
             vstart == pos + nflags + 1 + Len(Head(files).basename) + 1
         IN  IF vstart > Len(data) THEN -1
             ELSE EntriesEnd(data, Tail(files),
                             vstart - 1 + 3 + LeadingOnes(data[vstart]) + 8)

\* C10: for every file list, the empty one included, the payload
\* send_file_list emits is the entries of the list followed by one 0x00 byte:
\* the entries end one byte before the end of the payload and that last byte
\* is 0x00; for the empty list the payload is the single byte 00.
Thm_C10_ListTerminator ==
    enc.res = "Ok"
       => LET payload == Drop(enc.wrote, 4)
          IN  /\ Len(enc.wrote) >= 5
              /\ payload = enc.data
              /\ payload[Len(payload)] = 0
              /\ EntriesEnd(payload, flist, 0) = Len(payload) - 1
              /\ flist = <<>> => payload = <<0>>

\* a list of two files or more went out
Wit_C10_ListTerminator ==
    /\ enc.res = "Ok"
    /\ Len(flist) >= 2

----------------------------------------------------------------------------
(* Properties of read_int, checked under SocketSpec *)

\* the bytes the last call took off the stream are one whole Data frame
GotDataFrame ==
    /\ Len(last.got) >= 4
    /\ last.got[4] = 7
    /\ Len(last.got) = 4 + last.got[1] + 256 * last.got[2] + 65536 * last.got[3]

\* C18: read_int on a multiplexed socket that reads a Data message returns,
\* whatever payload the message carries, the signed 32-bit integer whose
\* big-endian bytes are the first four payload bytes, having taken that one
\* frame off the stream.
Cex_C18_ReadIntAnyPayload ==
    (last.op = "read_int" /\ last.mode /\ GotDataFrame)
        => /\ last.res = "Ok"
           /\ Len(last.got) >= 8
           /\ last.val = i32_from_be_bytes(SubSeq(last.got, 5, 8))

----------------------------------------------------------------------------
(* Properties of the preamble of main.rs, checked under Spec *)

\* the fields of s between its dots
RECURSIVE DotFields(_)
DotFields(s) ==
    LET i == IndexOf(s, 46)
    IN  IF i = 0 THEN <<s>> ELSE <<Take(s, i - 1)>> \o DotFields(Drop(s, i))

IsDigits(s) == Len(s) > 0 /\ \A i \in 1..Len(s) : s[i] >= 48 /\ s[i] <= 57

RECURSIVE StripZeros(_)
StripZeros(s) == IF Len(s) > 1 /\ s[1] = 48 THEN StripZeros(Tail(s)) ELSE s

\* "4294967295"
U32MaxDigits == <<52, 50, 57, 52, 57, 54, 55, 50, 57, 53>>

\* a <= b for digit strings of one length
DigitsLeq(a, b) ==
    \/ a = b
    \/ \E i \in 1..Len(a) : a[i] < b[i] /\ \A j \in 1..(i - 1) : a[j] = b[j]

\* s is decimal digits and its value fits 32 bits
IsDecimalU32(s) ==
    /\ IsDigits(s)
    /\ LET d == StripZeros(s)
       IN  Len(d) < 10 \/ (Len(d) = 10 /\ DigitsLeq(d, U32MaxDigits))

RECURSIVE DecimalValue(_)
DecimalValue(s) ==
    IF s = <<>> THEN 0
    ELSE 10 * DecimalValue(SubSeq(s, 1, Len(s) - 1)) + (s[Len(s)] - 48)

\* what reading the version line `line` yields by the four cases; with `sign`
\* a field may carry one leading '+'
VersionLineYields(line, sign) ==
    LET Digits(x) == IF sign /\ Len(x) > 0 /\ x[1] = 43 THEN Tail(x) ELSE x
    IN  IF ~IsPrefix(RSYNCD_PREFIX, line) THEN <<"Err", "InvalidHeader", <<>>>>
        ELSE LET f == DotFields(Drop(line, 9))
             IN  IF Len(f) < 2 THEN <<"Err", "IncompleteVersionSpecifier", <<>>>>
                 ELSE IF ~IsDecimalU32(Digits(f[1])) \/ ~IsDecimalU32(Digits(f[2]))
                 THEN <<"Err", "InvalidVersionNumber", <<>>>>
                 ELSE <<"Ok", "", <<DecimalValue(Digits(f[1])),
                                   DecimalValue(Digits(f[2]))>>>>

\* the entries of the log where read_init read a whole line of UTF-8
VersionLineReads ==
    { i \in 1..Len(log) : /\ log[i].what = "read_init"
                          /\ log[i].res \in {"Ok", "Err"}
                          /\ log[i].err \notin {"Io", "InvalidInput"}
                          /\ ~log[i].eof }

VersionLineOf(e) == SubSeq(e.took, 1, Len(e.took) - 1)

\* C15 as stated: reading the peer's version line yields InvalidHeader without
\* the 9-byte prefix, IncompleteVersionSpecifier with fewer than two fields,
\* InvalidVersionNumber when a field is not a decimal unsigned 32-bit number
\* (digits only), and the pair (major, minor) otherwise.
Cex_C15_VersionLine ==
    \A i \in VersionLineReads :
        <<log[i].res, log[i].err, log[i].ret>>
            = VersionLineYields(VersionLineOf(log[i]), FALSE)

\* C15, amended: the same four cases, where a field is a decimal unsigned
\* 32-bit number that may carry one leading '+'; "@RSYNCD: 31.0\n" yields
\* (31, 0).
Thm_C15_VersionLine ==
    \A i \in VersionLineReads :
        /\ <<log[i].res, log[i].err, log[i].ret>>
               = VersionLineYields(VersionLineOf(log[i]), TRUE)
        /\ log[i].took = RSYNCD_PREFIX \o <<51, 49, 46, 48, 10>>
               => log[i].res = "Ok" /\ log[i].ret = <<31, 0>>

\* read_init took "@RSYNCD: +31.0\n" for version (31, 0)
Wit_C15_VersionLine ==
    \E i \in VersionLineReads :
        /\ log[i].took = RSYNCD_PREFIX \o <<43, 51, 49, 46, 48, 10>>
        /\ log[i].res = "Ok"
        /\ log[i].ret = <<31, 0>>

\* the session read a query for the module list and no step of it failed
ModuleListSession ==
    /\ \E i \in 1..Len(log) : /\ log[i].what = "read_query"
                              /\ log[i].res = "Ok"
                              /\ log[i].ret = <<"ModuleList">>
    /\ \A i \in 1..Len(log) : log[i].res = "Ok"

\* what the server writes in the module-list scenario: its version line,
\* "@RSYNCD: OK\n", the compat byte, the seed, and the module list in one
\* Data frame
ModuleListReply ==
    RSYNCD_PREFIX \o <<51, 49, 46, 48, 10>> \o RSYNCD_PREFIX \o <<79, 75, 10>>
        \o <<0>> \o <<1, 0, 0, 0>>
        \o <<Len(MODULE_LIST), 0, 0, 7>> \o MODULE_LIST

\* C16: when the query line is empty or "#list", the server replies
\* "@RSYNCD: OK\n", reads the arguments, emits the compat byte 00, the seed
\* 01 00 00 00 and then one Data frame (header with tag byte 0x07) carrying
\* "module_one\nmodule_two\nmodule_three\n": it writes nothing else, and a
\* session that ran to its end wrote all of it.
Cex_C16_ModuleList ==
    ModuleListSession
        => /\ IsPrefix(sout, ModuleListReply)
           /\ pc = "sleep" => sout = ModuleListReply

\* bytes holds a line (up to delimiter d) longer than MAX_LINE_LENGTH
HasLongLine(bytes, d) ==
    \E a \in 0..Len(bytes) :
        /\ a + MAX_LINE_LENGTH + 1 <= Len(bytes)
        /\ a = 0 \/ bytes[a] = d
        /\ \A k \in (a + 1)..(a + MAX_LINE_LENGTH + 1) : bytes[k] # d

\* C17: reading a version line, a query line or a NUL-terminated argument
\* longer than the line-length cap fails with LineTooLarge.
Cex_C17_LineTooLarge ==
    \A i \in 1..Len(log) :
        /\ log[i].what \in {"read_init", "read_query", "server_read_args"}
        /\ HasLongLine(log[i].took, IF log[i].what = "server_read_args" THEN 0 ELSE 10)
        => log[i].res = "Err" /\ log[i].err = "LineTooLarge"

----------------------------------------------------------------------------
(* Properties of write_varlong, checked under CodecSpec *)

\* 0x0000FF, 0xDEADBEEF and 0xFFFFFFFFFF as u64
V_FF == <<255, 0, 0, 0, 0, 0, 0, 0>>

V_DEADBEEF == <<239, 190, 173, 222, 0, 0, 0, 0>>

V_FFFFFFFFFF == <<255, 255, 255, 255, 255, 0, 0, 0>>

\* a call write_varlong(v, 3, ..) returned
Varlong3(v) == varlong.res = "Ok" /\ varlong.min_size = 3 /\ varlong.value = v

\* C13 as stated: with min_size 3, 0 gives 00 00 00, 0xFF gives FF 00 00,
\* 0xDEADBEEF a leading byte with two length bits followed by EF BE AD DE,
\* 0xFFFFFFFFFF a leading byte with five length bits.
Cex_C13_VarintWidths ==
    /\ Varlong3(U64(0)) => varlong.bytes = <<0, 0, 0>>
    /\ Varlong3(V_FF) => varlong.bytes = <<255, 0, 0>>
    /\ Varlong3(V_DEADBEEF) => /\ LeadingOnes(varlong.bytes[1]) = 2
                               /\ Tail(varlong.bytes) = <<239, 190, 173, 222>>
    /\ Varlong3(V_FFFFFFFFFF) => LeadingOnes(varlong.bytes[1]) = 5

\* C13, amended: with min_size 3, 0 gives 00 00 00, 0xFF gives 00 FF 00 (the
\* leading byte first), 0xDEADBEEF gives C0 (two length bits) followed by
\* EF BE AD DE, 0xFFFFFFFFFF gives E0 (three length bits) followed by five FF.
Thm_C13_VarintWidths ==
    /\ Varlong3(U64(0)) => varlong.bytes = <<0, 0, 0>>
    /\ Varlong3(V_FF) => varlong.bytes = <<0, 255, 0>>
    /\ Varlong3(V_DEADBEEF) => /\ LeadingOnes(varlong.bytes[1]) = 2
                               /\ varlong.bytes = <<192, 239, 190, 173, 222>>
    /\ Varlong3(V_FFFFFFFFFF) => /\ LeadingOnes(varlong.bytes[1]) = 3
                                 /\ varlong.bytes = <<224, 255, 255, 255, 255, 255>>

\* write_varlong(0xFFFFFFFFFF, 3) returned
Wit_C13_VarintWidths == Varlong3(V_FFFFFFFFFF)

\* decoding: the leading one bits of the first byte give the extra length,
\* the bytes after it are the low bytes of the value, and the bits of the
\* first byte below its first zero bit are the high byte
VarDecode(bytes, min_size) ==
    LET n   == LeadingOnes(bytes[1])
        L   == min_size + n
        low == IF n >= 7 THEN 0 ELSE bytes[1] % (2 ^ (7 - n))
    IN  [ok    |-> Len(bytes) = L /\ (L <= 8 \/ low = 0),
         value |-> [i \in 1..8 |-> IF i < L /\ i + 1 <= Len(bytes) THEN bytes[i + 1]
                                   ELSE IF i = L THEN low ELSE 0]]

\* value v has an encoding of L bytes for this min_size
VarFits(v, L, min_size) ==
    LET n == L - min_size
    IN  /\ n >= 0 /\ n <= 8
        /\ \A i \in 1..8 : i > L => v[i] = 0
        /\ L <= 8 => v[L] < (IF n >= 7 THEN 1 ELSE 2 ^ (7 - n))

\* C14: for every u64 v and every min_size in 1..8, write_varlong completes
\* without overflow or abort, decoding its output gives v back, and the
\* output is the shortest encoding of at least min_size bytes that holds v.
Cex_C14_VarintRoundTrip ==
    varlong # NoVarlong
        => /\ varlong.res = "Ok"
           /\ LET d == VarDecode(varlong.bytes, varlong.min_size)
              IN  d.ok /\ d.value = varlong.value
           /\ VarFits(varlong.value, Len(varlong.bytes), varlong.min_size)
           /\ \A L \in varlong.min_size..(Len(varlong.bytes) - 1) :
                  ~VarFits(varlong.value, L, varlong.min_size)

----------------------------------------------------------------------------
(* Properties of the file entries, checked under CodecSpec *)

\* the entry "." of the scenario: mtime 5, length 420, mode 0o40755, no flags
DotEntry == MkFile(<<100>>, <<46>>, 5, U64(420), 16877, 0, "DotDir")

\* File::write_data_bytes was called on the directory entry "."
DotEntryEncoded == entry.res # "" /\ entry.file = DotEntry /\ entry.is_dir

\* C11: encoding an entry whose basename is longer than 255 bytes fails with
\* NameTooLong, and no byte of that entry is appended to the buffer or
\* written to the stream.
Cex_C11_NameTooLong ==
    /\ (entry.res # "" /\ Len(entry.file.basename) > 255)
           => entry.res = "Err" /\ entry.err = "NameTooLong" /\ entry.bytes = <<>>
    /\ (enc.res # "" /\ \E i \in 1..Len(flist) : Len(flist[i].basename) > 255)
           => enc.res = "Err" /\ enc.err = "NameTooLong" /\ enc.wrote = <<>>

EntryStart(i) == EntriesEnd(enc.data, SubSeq(flist, 1, i - 1), 0)

\* C19: every entry written has TOP_DIR set in its xfer flags when it is not
\* a directory, and its flags are one byte on the wire, followed by a second
\* byte exactly when EXTENDED_FLAGS is set.
Cex_C19_XferFlags ==
    /\ entry.res = "Ok"
           => /\ ~entry.is_dir => contains(entry.bytes[1], TOP_DIR)
              /\ EntriesEnd(entry.bytes, <<entry.file>>, 0) = Len(entry.bytes)
    /\ enc.res = "Ok"
           => \A i \in 1..Len(flist) :
                  /\ ~fsdir[i] => contains(enc.data[EntryStart(i) + 1], TOP_DIR)
                  /\ EntryStart(i + 1) > EntryStart(i)

\* C20: the first byte of every entry emitted is non-zero, so that the only
\* entry-leading 0x00 is the end-of-list byte.
Cex_C20_NoZeroFlagByte ==
    /\ entry.res = "Ok" => entry.bytes[1] # 0
    /\ enc.res = "Ok" => \A i \in 1..Len(flist) : enc.data[EntryStart(i) + 1] # 0

----------------------------------------------------------------------------
(* Properties of the mode flags of RsyncSocket, checked under SocketSpec *)

\* C21: multiplex_in() returns the value last passed to set_multiplex_in
\* (false if never set), which is the input mode read_message and
\* read_raw_until act on, and multiplex_out() the value last passed to
\* set_multiplex_out; a setter stores its argument in its own direction.
Cex_C21_GettersReportFlags ==
    /\ last.op = "multiplex_in" => last.flag = multiplex_in
    /\ last.op = "multiplex_out" => last.flag = multiplex_out
    /\ last.op = "set_multiplex_in" => multiplex_in = last.flag
    /\ last.op = "set_multiplex_out" => multiplex_out = last.flag

----------------------------------------------------------------------------
(* Properties of the frame of the file list, checked under CodecSpec *)

\* the length field of a frame header
HeaderLength(h) == h[1] + 256 * h[2] + 65536 * h[3]

\* C22: the file list goes out as exactly one Data frame, a header with tag
\* byte 0x07 followed by the payload, and the length field of the header is
\* the number of payload bytes written after it (all entries and the
\* end-of-list byte), for every list size, 2^24 bytes and more included.
Cex_C22_HeaderLength ==
    /\ enc.res = "Ok"
           => /\ Len(enc.wrote) = 4 + Len(enc.data)
              /\ enc.wrote[4] = 7
              /\ HeaderLength(enc.wrote) = Len(enc.data)
              /\ Drop(enc.wrote, 4) = enc.data
    /\ bulk.res = "Ok"
           => /\ bulk.header[4] = 7
              /\ HeaderLength(bulk.header) = bulk.payload_len

====
